---- MODULE Spec2Model ----
(***************************************************************************)
(* Model of internal/logger/logger.go: the process-wide Logger singleton,  *)
(* its buffered record channel, the single worker goroutine (start), the   *)
(* producers' log calls, Close and RecoverAndLogPanic.                      *)
(*                                                                         *)
(* A record in a sink stands for the line formatLog builds from it; the    *)
(* pair (tid, seq) stands for the Message/Time of the call that made it.   *)
(***************************************************************************)
EXTENDS Integers, Sequences, FiniteSets, TLC

\* ---------------------------------------------------------------- bounds
MaxLogs == 2         \* calls that build a record (log calls, RecoverAndLogPanic on a
                     \* panic) issued in one run, over all goroutines
QueueCap == 1        \* capacity of logChan (make(chan logMsg, 1000) in the code)

\* ------------------------------------------------------ program constants
DEBUG == 0
INFO == 1
WARN == 2
ERROR == 3

OutputNone == 0
OutputConsole == 2
OutputFile == 4

\* The goroutines of the embedding program that use the logger.
Threads == {1, 2}

\* Caller tags, as getCaller / the tests produce them (sequences of characters).
TagLogger == <<"l","o","g","g","e","r",".","f","u","n","c">>
TagMainpkg == <<"m","a","i","n","p","k","g",".","f","u","n","c">>
TagOtherpkg == <<"o","t","h","e","r","p","k","g",".","f","u","n","c">>
TagEmpty == <<>>
TagFileLine == <<"a",".","g","o",":","7"," ","l","o","g","g","e","r",".","F">>

PfxLogger == <<"l","o","g","g","e","r">>
PfxMain == <<"m","a","i","n">>
PfxOther == <<"o","t","h","e","r","p","k","g">>

\* The package-level default configuration.
DefaultCfg == [MinLevel |-> INFO, Targets |-> OutputConsole, AllowedPrefix |-> <<>>]

\* The configuration of TestLoggerBasic.
CfgTest == [MinLevel |-> DEBUG, Targets |-> OutputConsole, AllowedPrefix |-> <<PfxLogger>>]
\* Configurations callers pass to GetLoggerInstance.
CfgExample == [MinLevel |-> DEBUG, Targets |-> OutputConsole + OutputFile, AllowedPrefix |-> <<PfxMain>>]
CfgFileOnly == [MinLevel |-> WARN, Targets |-> OutputFile, AllowedPrefix |-> <<>>]
CfgFiltered == [MinLevel |-> DEBUG, Targets |-> OutputNone, AllowedPrefix |-> <<PfxOther, PfxLogger>>]

Configs == {CfgExample, CfgFileOnly, CfgFiltered}

\* The variadic argument of GetLoggerInstance: no config, or one.
CfgArgs == {<<>>} \cup {<<c>> : c \in Configs}

\* The (level, caller tag) of the program's log call sites.
CallSites ==
  { [Level |-> DEBUG, Caller |-> TagFileLine],
    [Level |-> ERROR, Caller |-> TagMainpkg] }

\* The caller tag getCaller gives RecoverAndLogPanic: the function that panicked.
RecoverTag == TagMainpkg

NoMsg == [tid |-> 0, seq |-> 0, Level |-> DEBUG, Caller |-> <<>>]
NoCall == [op |-> "none", cfgs |-> <<>>, msg |-> NoMsg, afterQuit |-> FALSE, afterClose |-> FALSE]

VARIABLES
  once,             \* sync.Once: "idle", "running" (f executing), "done"
  cfg,              \* package variable cfg
  instance,         \* package variable instance: 0 is nil, else the Logger's identity
  config,           \* instance.config
  logDir,           \* os.MkdirAll was called for the directory of cfg.LogPath
  fileLogger,       \* instance.fileLogger: "nil", "open" or "closed"
  allowFileLogger,  \* instance.allowFileLogger: "nil", "open" or "closed"
  logChan,          \* records buffered in instance.logChan
  chanClosed,       \* instance.logChan has been closed
  quit,             \* instance.quit has been closed
  wpc,              \* the worker goroutine: "none", "select", "drain", "done"
  console,          \* lines printed to the console, in order
  file,             \* lines written through fileLogger, in order
  allowed,          \* lines written through allowFileLogger, in order
  failed,           \* file writes that returned an error: [msg, sink]
  pc,               \* per goroutine: "idle", "init", "send", "close_sinks", "recover"
  call,             \* per goroutine: the call in progress
  result,           \* per goroutine: how its last log, Close or RecoverAndLogPanic call ended:
                    \* "none" (in progress, or no call yet), "skipped" (log returned at the
                    \* level test), "returned", "panic"
  ret,              \* per goroutine: the Logger its last GetLoggerInstance returned (0: none)
  initCount,        \* history: executions of the once.Do body
  workers,          \* history: worker goroutines started
  winner,           \* history: the argument of the first call that entered once.Do
  processed,        \* history: records the worker has dequeued and handled, with the path
  nlogs,            \* history: record-building calls issued
  closeSnap,        \* history: records accepted when close(quit) succeeded
  closeReturned     \* history: a Close call has returned

vars == <<once, cfg, instance, config, logDir, fileLogger, allowFileLogger, logChan,
          chanClosed, quit, wpc, console, file, allowed, failed, pc, call, result, ret,
          initCount, workers, winner, processed, nlogs, closeSnap, closeReturned>>

loggerVars == <<once, cfg, instance, config, logDir, initCount, workers, winner>>
sinkVars == <<console, file, allowed, failed>>
handleVars == <<fileLogger, allowFileLogger>>
chanVars == <<logChan, chanClosed, quit>>
closeHist == <<closeSnap, closeReturned>>

\* ------------------------------------------------------------ pure helpers
RECURSIVE BitAnd(_, _)
BitAnd(a, b) ==
  IF a = 0 \/ b = 0 THEN 0
  ELSE (IF a % 2 = 1 /\ b % 2 = 1 THEN 1 ELSE 0) + 2 * BitAnd(a \div 2, b \div 2)

\* A match at the start of s only (strings.HasPrefix).
ContainsAtStart(s, sub) == Len(sub) <= Len(s) /\ SubSeq(s, 1, Len(sub)) = sub

\* strings.Contains(s, sub)
Contains(s, sub) ==
  \E i \in 0..Len(s) : i + Len(sub) <= Len(s) /\ SubSeq(s, i + 1, i + Len(sub)) = sub

\* Logger.shouldAllow
shouldAllow(c, caller) ==
  IF Len(c.AllowedPrefix) = 0 THEN FALSE
  ELSE \E k \in 1..Len(c.AllowedPrefix) : Contains(caller, c.AllowedPrefix[k])

Init ==
  /\ once = "idle"
  /\ cfg = DefaultCfg
  /\ instance = 0
  /\ config = DefaultCfg
  /\ logDir = FALSE
  /\ fileLogger = "nil"
  /\ allowFileLogger = "nil"
  /\ logChan = <<>>
  /\ chanClosed = FALSE
  /\ quit = FALSE
  /\ wpc = "none"
  /\ console = <<>>
  /\ file = <<>>
  /\ allowed = <<>>
  /\ failed = {}
  /\ pc = [t \in Threads |-> "idle"]
  /\ call = [t \in Threads |-> NoCall]
  /\ result = [t \in Threads |-> "none"]
  /\ ret = [t \in Threads |-> 0]
  /\ initCount = 0
  /\ workers = 0
  /\ winner = <<>>
  /\ processed = {}
  /\ nlogs = 0
  /\ closeSnap = {}
  /\ closeReturned = FALSE

\* The records accepted onto logChan so far: still buffered, or already handled.
Accepted == {logChan[i] : i \in 1..Len(logChan)} \cup {p.msg : p \in processed}

\* The records a sink holds.
Lines(sink) == {sink[i] : i \in 1..Len(sink)}

\* ------------------------------------------------------- GetLoggerInstance
\* A check-then-act guard: whoever arrives before f has finished runs f too.
OnceCanEnterRacy(o) == o # "done"

\* once.Do runs f only for the first caller; a caller that arrives while f runs waits.
OnceCanEnter(o) == o = "idle"

\* start's and RecoverAndLogPanic's flag tests
HasConsole(c) == BitAnd(c.Targets, OutputConsole) # 0
HasFile(c) == BitAnd(c.Targets, OutputFile) # 0

\* "if cfg.Targets&OutputFile == 1": & binds tighter than ==.
MkdirGuard(c) == BitAnd(c.Targets, OutputFile) = 1

\* cfg after "if len(cfgs) > 0 { cfg = cfgs[0] }"
ChosenCfg(cfgs, cur) == IF Len(cfgs) > 0 THEN cfgs[1] ELSE cur

\* A goroutine calls GetLoggerInstance(cfgs...) and is the one once.Do lets in.
GetEnter(t, cfgs) ==
  /\ pc[t] = "idle"
  /\ OnceCanEnter(once)
  /\ once' = "running"
  /\ winner' = IF once = "idle" THEN cfgs ELSE winner
  /\ pc' = [pc EXCEPT ![t] = "init"]
  /\ call' = [call EXCEPT ![t] = [NoCall EXCEPT !.op = "get", !.cfgs = cfgs]]
  /\ UNCHANGED <<cfg, instance, config, logDir, initCount, workers, handleVars, chanVars,
                 wpc, sinkVars, result, ret, processed, nlogs, closeHist>>

\* The body passed to once.Do, then "return instance": to the caller, or to
\* RecoverAndLogPanic, which goes on to its writes.
GetInitBody(t) ==
  /\ pc[t] = "init"
  /\ cfg' = ChosenCfg(call[t].cfgs, cfg)
  /\ logDir' = MkdirGuard(cfg')
  /\ instance' = initCount + 1
  /\ logChan' = <<>>
  /\ chanClosed' = FALSE
  /\ quit' = FALSE
  /\ config' = cfg'
  /\ fileLogger' = IF HasFile(cfg') THEN "open" ELSE "nil"
  /\ allowFileLogger' = IF Len(cfg'.AllowedPrefix) > 0 THEN "open" ELSE "nil"
  /\ workers' = workers + 1
  /\ wpc' = "select"
  /\ initCount' = initCount + 1
  /\ once' = "done"
  /\ IF call[t].op = "recover"
       THEN /\ pc' = [pc EXCEPT ![t] = "recover"]
            /\ UNCHANGED <<ret, call>>
       ELSE /\ ret' = [ret EXCEPT ![t] = instance']
            /\ pc' = [pc EXCEPT ![t] = "idle"]
            /\ call' = [call EXCEPT ![t] = NoCall]
  /\ UNCHANGED <<winner, sinkVars, result, processed, nlogs, closeHist>>

\* GetLoggerInstance once the Once is done: once.Do does nothing, instance is returned.
GetReturn(t) ==
  /\ pc[t] = "idle"
  /\ once = "done"
  /\ ret' = [ret EXCEPT ![t] = instance]
  /\ UNCHANGED <<loggerVars, handleVars, chanVars, wpc, sinkVars, pc, call, result,
                 processed, nlogs, closeHist>>

\* ------------------------------------------------------------ Logger.log
\* The level test with the comparison turned around.
BelowMinInverted(level, c) == level > c.MinLevel

\* "if level < l.config.MinLevel { return }"
BelowMin(level, c) == level < c.MinLevel

\* A buffered send: the channel with the record added.
Enqueue(q, m) == Append(q, m)

\* Debug/Info/Warn/Error: the level test, then the record is built (Time, getCaller).
LogInvoke(t, site) ==
  /\ pc[t] = "idle"
  /\ ret[t] # 0
  /\ nlogs < MaxLogs
  /\ nlogs' = nlogs + 1
  /\ IF BelowMin(site.Level, config)
       THEN /\ result' = [result EXCEPT ![t] = "skipped"]
            /\ UNCHANGED <<pc, call>>
       ELSE /\ pc' = [pc EXCEPT ![t] = "send"]
            /\ call' = [call EXCEPT ![t] =
                 [NoCall EXCEPT !.op = "log",
                                !.msg = [tid |-> t, seq |-> nlogs + 1,
                                         Level |-> site.Level, Caller |-> site.Caller],
                                !.afterQuit = quit,
                                !.afterClose = closeReturned]]
            /\ result' = [result EXCEPT ![t] = "none"]
  /\ UNCHANGED <<loggerVars, handleVars, chanVars, wpc, sinkVars, ret, processed,
                 closeHist>>

\* "l.logChan <- logMsg{...}": panics on a closed channel, blocks while the buffer is full.
LogSend(t) ==
  /\ pc[t] = "send"
  /\ \/ /\ chanClosed
        /\ result' = [result EXCEPT ![t] = "panic"]
        /\ UNCHANGED logChan
     \/ /\ ~chanClosed
        /\ Len(logChan) < QueueCap
        /\ logChan' = Enqueue(logChan, call[t].msg)
        /\ result' = [result EXCEPT ![t] = "returned"]
  /\ pc' = [pc EXCEPT ![t] = "idle"]
  /\ call' = [call EXCEPT ![t] = NoCall]
  /\ UNCHANGED <<loggerVars, handleVars, chanClosed, quit, wpc, sinkVars, ret, processed,
                 nlogs, closeHist>>

\* ---------------------------------------------------------- Logger.Close
\* A Close that guards the close of quit, so that a second call goes on.
CloseOfClosedSilent(q) == FALSE

\* close(l.quit) panics when quit is already closed.
CloseOfClosed(q) == q

\* A *lumberjack.Logger after Close: nil stays nil.
ClosedHandle(h) == IF h # "nil" THEN "closed" ELSE h

\* "close(l.quit)"
CloseQuit(t) ==
  /\ pc[t] = "idle"
  /\ ret[t] # 0
  /\ IF CloseOfClosed(quit)
       THEN /\ result' = [result EXCEPT ![t] = "panic"]
            /\ UNCHANGED <<quit, closeSnap, pc, call>>
       ELSE /\ quit' = TRUE
            /\ closeSnap' = Accepted
            /\ pc' = [pc EXCEPT ![t] = "close_sinks"]
            /\ call' = [call EXCEPT ![t] = [NoCall EXCEPT !.op = "close"]]
            /\ result' = [result EXCEPT ![t] = "none"]
  /\ UNCHANGED <<loggerVars, handleVars, logChan, chanClosed, wpc, sinkVars, ret,
                 processed, nlogs, closeReturned>>

\* "if l.fileLogger != nil { _ = l.fileLogger.Close() }" and the same for
\* allowFileLogger, then Close returns.
CloseSinks(t) ==
  /\ pc[t] = "close_sinks"
  /\ fileLogger' = ClosedHandle(fileLogger)
  /\ allowFileLogger' = ClosedHandle(allowFileLogger)
  /\ pc' = [pc EXCEPT ![t] = "idle"]
  /\ call' = [call EXCEPT ![t] = NoCall]
  /\ result' = [result EXCEPT ![t] = "returned"]
  /\ closeReturned' = TRUE
  /\ UNCHANGED <<loggerVars, chanVars, wpc, sinkVars, ret, processed, nlogs, closeSnap>>

\* ---------------------------------------------------------- Logger.start
\* The sinks the select's receive case writes a record to.
NormalConsole(c) == HasConsole(c)
\* The sinks the drain loop ("for msg := range l.logChan") writes a record to.
DrainConsole(c) == FALSE

ToAllowed(h, c, caller) == h # "nil" /\ shouldAllow(c, caller)

\* A receive that leaves the record it read in the channel.
RecvPeek(q) == q

\* The next record a receive takes from the channel, and what is left.
RecvMsg(q) == Head(q)
RecvRest(q) == Tail(q)

\* A *lumberjack.Logger after Write: a closed one opens its file again.
WrittenHandle(h) == "open"

\* A write that lands before what the sink already holds.
SinkWriteAtFront(sink, m) == <<m>> \o sink

\* fmt.Print / lumberjack Write: the line is added at the end of the sink's output.
SinkWrite(sink, m) == Append(sink, m)

\* A worker that gives up on a record when its file write returned an error.
StopsAfterError(err) == ~err

\* The error a Write returns is dropped: the filtered write follows in any case.
ContinuesAfterError(err) == TRUE

\* Format and write one record; toConsole is the path's console decision, ff and af
\* say that the file write, the filtered write would return an error.
Handle(m, toConsole, path, ff, af) ==
  LET toFile == HasFile(config)
      toAllowed == /\ ContinuesAfterError(toFile /\ ff)
                   /\ ToAllowed(allowFileLogger, config, m.Caller)
  IN
  /\ console' = IF toConsole THEN SinkWrite(console, m) ELSE console
  /\ file' = IF toFile /\ ~ff THEN SinkWrite(file, m) ELSE file
  /\ fileLogger' = IF toFile /\ ~ff THEN WrittenHandle(fileLogger) ELSE fileLogger
  /\ allowed' = IF toAllowed /\ ~af THEN SinkWrite(allowed, m) ELSE allowed
  /\ allowFileLogger' = IF toAllowed /\ ~af THEN WrittenHandle(allowFileLogger)
                                            ELSE allowFileLogger
  /\ failed' = failed \cup (IF toFile /\ ff THEN {[msg |-> m, sink |-> "file"]} ELSE {})
                      \cup (IF toAllowed /\ af THEN {[msg |-> m, sink |-> "filtered"]} ELSE {})
  /\ processed' = processed \cup {[msg |-> m, path |-> path]}

\* "case msg := <-l.logChan:"
WorkerRecvOutcome(ff, af) ==
  /\ wpc = "select"
  /\ logChan # <<>>
  /\ logChan' = RecvRest(logChan)
  /\ Handle(RecvMsg(logChan), NormalConsole(config), "normal", ff, af)
  /\ UNCHANGED <<loggerVars, chanClosed, quit, wpc, pc, call, result, ret, nlogs,
                 closeHist>>

\* The receive case with both writes succeeding.
WorkerRecv == WorkerRecvOutcome(FALSE, FALSE)

\* A select that takes the quit case whether or not quit is closed.
QuitAlwaysReady(q) == TRUE

\* A select without the quit case.
QuitNeverReady(q) == FALSE

\* "case <-l.quit:" is ready once quit is closed.
QuitReady(q) == q

\* A quit case that leaves logChan as it is.
CloseChanForgotten(closed) == closed

\* close(l.logChan): the channel is closed from now on.
CloseChan(closed) == TRUE

\* "case <-l.quit: close(l.logChan)"
WorkerQuit ==
  /\ wpc = "select"
  /\ QuitReady(quit)
  /\ chanClosed' = CloseChan(chanClosed)
  /\ wpc' = "drain"
  /\ UNCHANGED <<loggerVars, handleVars, logChan, quit, sinkVars, pc, call, result, ret,
                 processed, nlogs, closeHist>>

\* One iteration of "for msg := range l.logChan".
WorkerDrainOutcome(ff, af) ==
  /\ wpc = "drain"
  /\ logChan # <<>>
  /\ logChan' = RecvRest(logChan)
  /\ Handle(RecvMsg(logChan), DrainConsole(config), "drain", ff, af)
  /\ UNCHANGED <<loggerVars, chanClosed, quit, wpc, pc, call, result, ret, nlogs,
                 closeHist>>

\* A drain iteration with both writes succeeding.
WorkerDrain == WorkerDrainOutcome(FALSE, FALSE)

\* The range loop ends on the closed, empty channel; "return".
WorkerReturn ==
  /\ wpc = "drain"
  /\ logChan = <<>>
  /\ wpc' = "done"
  /\ UNCHANGED <<loggerVars, handleVars, chanVars, sinkVars, pc, call, result, ret,
                 processed, nlogs, closeHist>>

\* ---------------------------------------------------------- RecoverAndLogPanic
\* A recovery that reads the package variable instance without asking for it.
RecoverUsesInstanceUnasked(o) == o # "running"

\* "log := GetLoggerInstance()" has returned: once.Do is over.
RecoverHasLogger(o) == o = "done"

\* "log.config.Targets&OutputFile != 0 && log.fileLogger != nil"
RecoverToFile(c, h) == HasFile(c) /\ h # "nil"

\* A recovery that prints whatever the targets are.
RecoverToConsoleAlways(c) == TRUE

\* "log.config.Targets&OutputConsole != 0"
RecoverToConsole(c) == HasConsole(c)

\* logMsg{Level: ERROR, ..., Caller: getCaller()}, built by the goroutine that panicked.
RecoverMsg(t) == [tid |-> t, seq |-> 0, Level |-> ERROR, Caller |-> RecoverTag]

\* How the body ends: a method called on a nil Logger or a nil *lumberjack.Logger
\* panics again.
RecoverOutcome(inst, toFile, fh, toAllowed, ah) ==
  IF inst = 0 \/ (toFile /\ fh = "nil") \/ (toAllowed /\ ah = "nil")
    THEN "panic" ELSE "returned"

\* "defer RecoverAndLogPanic()" runs with no panic under way: recover() gives nil.
RecoverNoPanic(t) ==
  /\ pc[t] = "idle"
  /\ UNCHANGED vars

\* recover() gives the panic value and GetLoggerInstance() finds once.Do not yet
\* entered: this goroutine runs the body, with the package default cfg.
RecoverInit(t) ==
  /\ pc[t] = "idle"
  /\ nlogs < MaxLogs
  /\ OnceCanEnter(once)
  /\ once' = "running"
  /\ winner' = <<>>
  /\ nlogs' = nlogs + 1
  /\ pc' = [pc EXCEPT ![t] = "init"]
  /\ call' = [call EXCEPT ![t] = [op |-> "recover", cfgs |-> <<>>, msg |-> RecoverMsg(t),
                                  afterQuit |-> quit, afterClose |-> closeReturned]]
  /\ result' = [result EXCEPT ![t] = "none"]
  /\ UNCHANGED <<cfg, instance, config, logDir, initCount, workers, handleVars, chanVars,
                 wpc, sinkVars, ret, processed, closeHist>>

\* The writes of RecoverAndLogPanic, by the goroutine that panicked: after its own
\* once.Do body, or at once when the singleton is there.
RecoverWrite(t) ==
  LET m == RecoverMsg(t)
      toConsole == RecoverToConsole(config)
      toFile == RecoverToFile(config, fileLogger)
      toAllowed == ToAllowed(allowFileLogger, config, m.Caller)
      out == RecoverOutcome(instance, toFile, fileLogger, toAllowed, allowFileLogger)
  IN
  /\ \/ /\ pc[t] = "recover"
        /\ nlogs' = nlogs
     \/ /\ pc[t] = "idle"
        /\ nlogs < MaxLogs
        /\ RecoverHasLogger(once)
        /\ nlogs' = nlogs + 1
  /\ result' = [result EXCEPT ![t] = out]
  /\ IF out = "returned"
       THEN /\ console' = IF toConsole THEN SinkWrite(console, m) ELSE console
            /\ file' = IF toFile THEN SinkWrite(file, m) ELSE file
            /\ fileLogger' = IF toFile THEN WrittenHandle(fileLogger) ELSE fileLogger
            /\ allowed' = IF toAllowed THEN SinkWrite(allowed, m) ELSE allowed
            /\ allowFileLogger' = IF toAllowed THEN WrittenHandle(allowFileLogger)
                                                ELSE allowFileLogger
       ELSE UNCHANGED <<console, file, allowed, handleVars>>
  /\ pc' = [pc EXCEPT ![t] = "idle"]
  /\ call' = [call EXCEPT ![t] = NoCall]
  /\ UNCHANGED <<loggerVars, chanVars, wpc, failed, ret, processed, closeHist>>

Worker == WorkerRecv \/ WorkerQuit \/ WorkerDrain \/ WorkerReturn

\* The steps that finish a call a goroutine has begun.
Continue(t) == GetInitBody(t) \/ LogSend(t) \/ CloseSinks(t)

\* GetLoggerInstance, log, Close and the worker.
PipelineNext ==
  \/ \E t \in Threads, cfgs \in CfgArgs : GetEnter(t, cfgs)
  \/ \E t \in Threads : GetInitBody(t)
  \/ \E t \in Threads : GetReturn(t)
  \/ \E t \in Threads, site \in CallSites : LogInvoke(t, site)
  \/ \E t \in Threads : LogSend(t)
  \/ \E t \in Threads : CloseQuit(t)
  \/ \E t \in Threads : CloseSinks(t)
  \/ WorkerRecv
  \/ WorkerQuit
  \/ WorkerDrain
  \/ WorkerReturn

\* RecoverAndLogPanic, deferred in any goroutine.
RecoverNext ==
  \/ \E t \in Threads : RecoverNoPanic(t)
  \/ \E t \in Threads : RecoverInit(t)
  \/ \E t \in Threads : RecoverWrite(t)

Next == PipelineNext \/ RecoverNext

Spec == Init /\ [][Next]_vars

\* Go's scheduler runs every runnable goroutine, and select picks among its ready
\* cases at random: the quit case, ready from the close of quit on until it is taken,
\* is taken. The runs are those of GetLoggerInstance, log, Close and the worker;
\* RecoverAndLogPanic sends and receives on no channel.
FairSpec ==
  /\ Init /\ [][PipelineNext]_vars
  /\ WF_vars(Worker)
  /\ WF_vars(WorkerQuit)
  /\ \A t \in Threads : WF_vars(Continue(t))

\* The errors a record's file write and filtered write can return.
WriteErrors == {<<TRUE, FALSE>>, <<FALSE, TRUE>>, <<TRUE, TRUE>>}

\* The receive case, the drain iteration with a Write that returns an error.
WorkerRecvError == \E e \in WriteErrors : WorkerRecvOutcome(e[1], e[2])
WorkerDrainError == \E e \in WriteErrors : WorkerDrainOutcome(e[1], e[2])

\* The goroutines that use the logger when writes can fail: the main goroutine, as
\* in example/main.go.
FailThreads == {1}

\* The pipeline over sinks whose writes can fail.
FailNext ==
  \/ \E t \in FailThreads, cfgs \in CfgArgs : GetEnter(t, cfgs)
  \/ \E t \in FailThreads : GetInitBody(t)
  \/ \E t \in FailThreads : GetReturn(t)
  \/ \E t \in FailThreads, site \in CallSites : LogInvoke(t, site)
  \/ \E t \in FailThreads : LogSend(t)
  \/ \E t \in FailThreads : CloseQuit(t)
  \/ \E t \in FailThreads : CloseSinks(t)
  \/ WorkerRecv
  \/ WorkerQuit
  \/ WorkerDrain
  \/ WorkerReturn
  \/ WorkerRecvError
  \/ WorkerDrainError

FailSpec == Init /\ [][FailNext]_vars

\* ---------------------------------------------------------- properties
\* The records the worker has dequeued and handled.
Handled == {p.msg : p \in processed}

\* A record built by a log call (RecoverAndLogPanic's records carry no call number).
FromLog(m) == m.seq > 0

\* The console flag / the file flag is a member of Targets.
ConsoleFlag(c) == c.Targets \in {OutputConsole, OutputConsole + OutputFile}
FileFlag(c) == c.Targets \in {OutputFile, OutputConsole + OutputFile}

\* caller[off+1 .. off+Len(p)] spells p.
SpelledAt(caller, p, off) ==
  /\ off + Len(p) <= Len(caller)
  /\ \A j \in 1..Len(p) : caller[off + j] = p[j]

\* The router's filtered-sink rule: some configured prefix occurs somewhere in the tag.
TagMatches(c, caller) ==
  /\ c.AllowedPrefix # <<>>
  /\ \E k \in DOMAIN c.AllowedPrefix : \E off \in 0..Len(caller) :
        SpelledAt(caller, c.AllowedPrefix[k], off)

\* route(record, config): the sinks the router selects.
Route(m, c) ==
  (IF ConsoleFlag(c) THEN {"console"} ELSE {}) \cup
  (IF FileFlag(c) THEN {"file"} ELSE {}) \cup
  (IF TagMatches(c, m.Caller) THEN {"filtered"} ELSE {})

\* The sinks that hold record m.
WrittenTo(m) ==
  (IF m \in Lines(console) THEN {"console"} ELSE {}) \cup
  (IF m \in Lines(file) THEN {"file"} ELSE {}) \cup
  (IF m \in Lines(allowed) THEN {"filtered"} ELSE {})

\* C1: every record accepted onto the queue is written to every sink the router
\* selects for it; stated at the worker's end, when nothing more will be written:
\* once the worker has terminated, each accepted record is in all its routed sinks.
C1_AcceptedReachAllRoutedSinks ==
  wpc = "done" => \A m \in Accepted : Route(m, config) \subseteq WrittenTo(m)

\* C2: when Close has returned, every record enqueued before the call has been
\* handled by the worker, the queue is empty and the worker has terminated.
C2_CloseReturnsAfterDrain ==
  closeReturned => /\ closeSnap \subseteq Handled
                   /\ logChan = <<>>
                   /\ wpc = "done"

\* C3: a log call at a level >= MinLevel invoked after Close has returned never
\* puts its record on the queue and never returns normally: its send ends in a panic.
C3_LogAfterCloseAlwaysPanics ==
  [][\A t \in Threads :
       (pc[t] = "send" /\ call[t].afterClose /\ pc'[t] # "send")
         => (result'[t] = "panic" /\ logChan' = logChan)]_vars

\* C4: a log call at a level >= MinLevel invoked after Close was called does not
\* stay at its send forever: it returns or panics.
C4_LogAfterCloseTerminates ==
  \A t \in Threads : (pc[t] = "send" /\ call[t].afterQuit) ~> (pc[t] # "send")

\* C4 witness: such a call is waiting at its send on a full, still open queue.
C4_Witness ==
  \E t \in Threads : /\ pc[t] = "send"
                     /\ call[t].afterQuit
                     /\ Len(logChan) = QueueCap
                     /\ ~chanClosed

\* C5: a Close call issued when quit is already closed panics and changes nothing
\* (pipeline state, queue, sinks, sink handles, worker, other goroutines), and the
\* drain the first Close started still completes.
C5_SecondClosePanicsAndChangesNothing ==
  /\ [][\A t \in Threads :
          (CloseQuit(t) /\ quit)
            => /\ result' = [result EXCEPT ![t] = "panic"]
               /\ UNCHANGED <<loggerVars, handleVars, chanVars, wpc, sinkVars, pc, call,
                              ret, processed, nlogs, closeHist>>]_vars
  /\ (quit /\ \E t \in Threads : result[t] = "panic") ~> (wpc = "done" /\ logChan = <<>>)

\* C5 witness: a second Close has panicked (no send can panic on the open channel)
\* while a record was waiting and the drain had not begun.
C5_Witness ==
  /\ \E t \in Threads : result[t] = "panic"
  /\ closeReturned
  /\ wpc = "select"
  /\ ~chanClosed
  /\ logChan # <<>>

\* C6: a log call below MinLevel returns at once in every pipeline state, without a
\* panic, builds no record and leaves queue, sinks, handles and worker as they are;
\* and no record below MinLevel is ever queued, pending or written.
C6_BelowMinLevelIsNoOp ==
  /\ [][\A t \in Threads, site \in CallSites :
          (LogInvoke(t, site) /\ site.Level < config.MinLevel)
            => /\ pc'[t] = "idle"
               /\ result'[t] = "skipped"
               /\ UNCHANGED <<loggerVars, handleVars, chanVars, wpc, sinkVars, call, ret,
                              processed, closeHist>>]_vars
  /\ [](\A m \in Accepted \cup Lines(console) \cup Lines(file) \cup Lines(allowed)
                  \cup {call[t].msg : t \in {u \in Threads : pc[u] = "send"}} :
          m.Level >= config.MinLevel)

\* C6 witness: a call below MinLevel has returned on a closed pipeline, and nothing
\* was ever queued or written.
C6_Witness ==
  /\ \E t \in Threads : result[t] = "skipped"
  /\ chanClosed
  /\ nlogs = MaxLogs
  /\ Accepted = {}
  /\ console = <<>> /\ file = <<>> /\ allowed = <<>>

\* Sink output keeps each producer's call order.
ProducerOrder(sink) ==
  \A i, j \in 1..Len(sink) :
    (i < j /\ FromLog(sink[i]) /\ FromLog(sink[j]) /\ sink[i].tid = sink[j].tid)
      => sink[i].seq < sink[j].seq

C8_FilteredRouting ==
  /\ \A m \in Handled : (m \in Lines(allowed)) <=> TagMatches(config, m.Caller)
  /\ {m \in Lines(allowed) : FromLog(m)} \subseteq Handled
  /\ shouldAllow(CfgTest, TagLogger)
  /\ ~shouldAllow(CfgTest, TagMainpkg)
  /\ ~shouldAllow(CfgTest, TagOtherpkg)
  /\ ~shouldAllow(CfgTest, TagEmpty)

\* C8 witness: under AllowedPrefix = [otherpkg, logger] a record whose tag has logger in the
\* middle is in the filtered sink and a record tagged mainpkg.func is not.
C8_Witness ==
  /\ config = CfgFiltered
  /\ \E m \in Handled : m.Caller = TagFileLine /\ m \in Lines(allowed)
  /\ \E m \in Handled : m.Caller = TagMainpkg /\ m \notin Lines(allowed)

\* C9: every handled record is on the console iff the Console flag is set and in the
\* primary file iff the File flag is set, on the normal and on the drain path.
C9_ConsoleAndFileFollowFlags ==
  \A m \in Handled :
    /\ (m \in Lines(console)) <=> ConsoleFlag(config)
    /\ (m \in Lines(file)) <=> FileFlag(config)

\* C10: the once.Do body runs at most once and starts the only worker; every
\* GetLoggerInstance returns the one instance; its configuration is the winning
\* call's (the passed one, else the default) and never changes afterwards.
C10_SingletonFirstWriterWins ==
  /\ [](/\ initCount <= 1
        /\ workers = initCount
        /\ (instance # 0 <=> initCount = 1)
        /\ \A t \in Threads : ret[t] # 0 => (ret[t] = instance /\ once = "done")
        /\ instance # 0 => config = (IF winner = <<>> THEN DefaultCfg ELSE winner[1]))
  /\ [][instance # 0 => (instance' = instance /\ config' = config)]_vars

\* C10 witness: both goroutines hold the instance, which has the passed configuration.
C10_Witness ==
  /\ \A t \in Threads : ret[t] = instance /\ instance # 0
  /\ winner = <<CfgExample>>
  /\ config = CfgExample

\* C11: RecoverAndLogPanic, deferred around work that panics, takes the panic and
\* returns normally whatever the pipeline is at: not yet created, open, stopping,
\* stopped, sinks closed or not. It never ends in a panic of its own.
C11_RecoverNeverFails ==
  [][\A t \in Threads : RecoverWrite(t) => result'[t] = "returned"]_vars

\* C11 witness: a recovery has returned after Close had closed the file sink: the
\* worker handled nothing, so the one line in the reopened file is the recovery's.
C11_Witness ==
  /\ \E t \in Threads : result[t] = "returned"
  /\ closeReturned
  /\ processed = {}
  /\ fileLogger = "open"
  /\ Len(file) = 1
  /\ ~FromLog(file[1])

\* C12: once the singleton is constructed, only a step of the worker writes to a sink
\* or closes one: no log call, Close call or RecoverAndLogPanic call does.
C12_OnlyWorkerTouchesSinks ==
  [][(instance # 0 /\ (<<console, file, allowed>>' # <<console, file, allowed>>
                        \/ handleVars' # handleVars))
       => processed' # processed]_vars

\* C13: a sink is closed only after the worker's last write to it (after the drain
\* has completed): the worker, handling a record, never writes to a sink that has
\* been closed.
C13_NoWriteAfterSinkClosed ==
  [][processed' # processed
       => /\ fileLogger = "closed" => file' = file
          /\ allowFileLogger = "closed" => allowed' = allowed]_vars

\* The pipeline's position: 0 Open (quit not closed), 1 Closing (quit closed, queue
\* channel open), 2 still Closing (queue channel closed, the worker draining),
\* 3 Closed (queue channel closed, worker returned).
PipelineRank ==
  IF ~quit THEN 0
  ELSE IF ~chanClosed THEN 1
  ELSE IF wpc # "done" THEN 2
  ELSE 3

\* C14: the pipeline state only moves Open -> Closing -> Closed, one step at a time
\* and never backwards; the queue channel is closed only with quit closed, and once
\* Closed no step of any operation moves the state again.
C14_PipelineStateMonotone ==
  [][/\ PipelineRank' \in {PipelineRank, PipelineRank + 1}
     /\ chanClosed' => quit'
     /\ PipelineRank = 3 => PipelineRank' = 3]_vars

\* C14 witness: a log call is in flight on the Closed pipeline.
C14_Witness ==
  /\ PipelineRank = 3
  /\ \E t \in Threads : pc[t] = "send" /\ call[t].afterClose

C16_LogWhileOpenNeverFails ==
  [][\A t \in Threads :
       (pc[t] = "send" /\ ~call[t].afterQuit /\ pc'[t] # "send")
         => /\ result'[t] = "returned"
            /\ logChan' = Append(logChan, call[t].msg)
            /\ Len(logChan') <= QueueCap]_vars

\* C17: a RecoverAndLogPanic that takes a panic leaves the queue, the pipeline state
\* and the worker's records as they are and appends one ERROR record to the console
\* iff the Console flag is set, to the file iff the File flag is set and to the
\* filtered file iff the caller tag matches, and to nothing else; with no panic under
\* way it changes nothing.
C17_RecoverBypassesQueue ==
  [][\A t \in Threads :
       /\ (RecoverInit(t) \/ (call[t].op = "recover" /\ GetInitBody(t)))
            => (chanVars' = chanVars /\ PipelineRank' = PipelineRank
                /\ <<console, file, allowed>>' = <<console, file, allowed>>)
       /\ RecoverWrite(t)
            => LET m == [tid |-> t, seq |-> 0, Level |-> ERROR, Caller |-> RecoverTag] IN
               /\ chanVars' = chanVars /\ PipelineRank' = PipelineRank
               /\ processed' = processed
               /\ console' = IF ConsoleFlag(config) THEN Append(console, m) ELSE console
               /\ file' = IF FileFlag(config) THEN Append(file, m) ELSE file
               /\ allowed' = IF TagMatches(config, m.Caller) THEN Append(allowed, m)
                                                            ELSE allowed
       /\ RecoverNoPanic(t) => UNCHANGED vars]_vars

\* C17 witness: a recovery's record is in all three sinks while a record of a log
\* call is still waiting in the queue.
C17_Witness ==
  /\ logChan # <<>>
  /\ \E m \in Lines(console) \cap Lines(file) \cap Lines(allowed) : ~FromLog(m)

C19_FileFlagTestsAgree ==
  once = "done" =>
    /\ logDir <=> FileFlag(config)
    /\ fileLogger # "nil" <=> FileFlag(config)
    /\ HasFile(config) <=> FileFlag(config)
    /\ allowFileLogger # "nil" <=> config.AllowedPrefix # <<>>

\* No record of a log call is twice in the sink.
NoRepeat(sink) ==
  \A i, j \in 1..Len(sink) : (i < j /\ FromLog(sink[i])) => sink[i] # sink[j]

\* C20: no record is duplicated: a record is in the queue at most once and not after
\* it was handled, it is handled by the normal loop or by the drain loop but not by
\* both, it is at most once in each sink, and there are no more records than calls.
C20_NoDuplication ==
  /\ NoRepeat(logChan)
  /\ \A i \in 1..Len(logChan) : logChan[i] \notin Handled
  /\ \A p, q \in processed : p.msg = q.msg => p.path = q.path
  /\ NoRepeat(console) /\ NoRepeat(file) /\ NoRepeat(allowed)
  /\ Cardinality(Accepted) <= nlogs

\* C20 witness: one record went through the normal loop and one through the drain
\* loop, and the file and the filtered file hold each of them once.
C20_Witness ==
  /\ \E p, q \in processed : p.path = "normal" /\ q.path = "drain"
  /\ Len(file) = 2
  /\ Len(allowed) = 2

====
